---- MODULE Spec2Model ----
(***************************************************************************)
(* ASCII Fire Effect Simulator: the fire engine (src/src/main.cpp,         *)
(* FireEngine), the input handler (InputHandler) and the main loop.        *)
(*                                                                         *)
(* Numbers.  Heat is an int.  The float expressions of the engine are      *)
(* evaluated in IEEE single precision and converted with static_cast<int>  *)
(* (truncation toward zero); for every heat in 0..400, every fuel amount   *)
(* in 0..100 and every integral wind strength in -5..5 the result equals   *)
(* the truncated integer quotient used here (h*0.3f -> 3h/10, h*0.1f ->    *)
(* h/10, h*0.2f -> 2h/10, h*0.85f - ... -> (85h - ...)/100).               *)
(* Wind strengths are the integral ones (main passes -2.0f and 2.0f).      *)
(* A particle keeps its vertical position and velocity in tenths of a      *)
(* cell; its horizontal position and velocity (x, vx) are written by       *)
(* update_particles and read by render only, and are left out.             *)
(* FireStats::average_temp is total_heat/active_pixels and fps is wall     *)
(* clock time; both are left out of the statistics record.                 *)
(***************************************************************************)
EXTENDS Integers, Sequences, FiniteSets, TLC

(* ---------------- grid geometry (bounds of the model) ---------------- *)
width == 4
height == 3

(* ---------------- program constants ---------------- *)
max_particles == 200
base_heat == 80
explosion_intensity == 80
explosion_radius == 3
explosion_particles == 10
NUM_COLOR_SCHEMES == 6
CLASSIC_FIRE == 0
BLUE_FLAME == 1
ICE_FIRE == 2
PLASMA == 3
RAINBOW == 4
MATRIX == 5
FIRE_BLACK == 0
FIRE_RED == 4
FIRE_ORANGE == 6
FIRE_YELLOW == 14
FIRE_WHITE == 15
FIRE_BLUE == 9
FIRE_CYAN == 11
FIRE_MAGENTA == 13
FIRE_GREEN == 10
\* get_key_press() when no key is waiting
KEY_NONE == -1
\* the strength main hands to set_wind, the amount it hands to add_fuel, and
\* the rounds of add_fuel(1), add_fuel(-1) it makes when the colors cycle
wind_step == 2
fuel_step == 10
cycle_fuel_rounds == 5
\* UIManager redraws every third frame
ui_period == 3
\* animations.stat_smoothing = 0.9f and 1.0f - 0.9f, in units of 2^-24
stat_smoothing == 15099494
stat_weight == 1677722
float_unit == 16777216

(* ---------------- bounds of the exploration ---------------- *)
MaxUpdates == 2
MaxIgnitions == 1
MaxColdUpdates == 10
MaxPairUpdates == 10
MaxFrames == 4
MaxCycleFrames == 6
MaxFadeUpdates == 4
MaxRenders == 3
MaxEmberUpdates == 12
MaxPausedFrames == 4
MaxRun == 7
HeatMargin == 2
MaxStatsUpdates == 1
\* the snake game: the board (50 x 25 in snake.cpp) and the ticks of one run
WIDTH == 6
HEIGHT == 7
MaxTicks == 5

VARIABLES fire_engine, control_engine, calls, crashed, ignitions,
          input_handler, ui_manager, main_loop, should_exit, key_run, display,
          snake_game
\* the components of main besides the engine
application == <<input_handler, ui_manager, main_loop, should_exit>>
\* the state kept beside the fire simulation
standalone == <<key_run, display, snake_game>>
vars ==
  <<fire_engine, control_engine, calls, crashed, ignitions, application,
    standalone>>

Rows == 0..(height - 1)
Cols == 0..(width - 1)

Max(a, b) == IF a > b THEN a ELSE b
Min(a, b) == IF a < b THEN a ELSE b

\* static_cast<int> of a quotient n/d with d > 0: truncation toward zero
Trunc(n, d) == IF n >= 0 THEN n \div d ELSE -((-n) \div d)

\* std::clamp
clamp(v, lo, hi) == IF v < lo THEN lo ELSE IF v > hi THEN hi ELSE v

\* the range of int; the sum of two ints is kept modulo 2^32
INT_MAX == 2147483647
INT_MIN == -INT_MAX - 1
wrap_add(a, b) ==
  IF b > 0 /\ a > INT_MAX - b THEN INT_MIN + (a - (INT_MAX - b) - 1)
  ELSE IF b < 0 /\ a < INT_MIN - b THEN INT_MAX - ((INT_MIN - b) - a - 1)
  ELSE a + b

\* a float is held as its integral value; the quiet NaN has a code of its
\* own, and every ordered comparison with it is false
NaN == INT_MIN
is_nan(v) == v = NaN
float_less(a, b) == ~is_nan(a) /\ ~is_nan(b) /\ a < b
\* std::clamp on float: (v < lo) ? lo : (hi < v) ? hi : v
float_clamp(v, lo, hi) ==
  IF float_less(v, lo) THEN lo ELSE IF float_less(hi, v) THEN hi ELSE v

clamp_heat(value) == IF value < 0 THEN 0 ELSE IF value > 100 THEN 100 ELSE value

\* rand_int(rng) is uniform on 0..100; the draws enumerated at each site
RandInt == 0..100
FuelDraws == {0, 99}
ResetDraws == {0, 99}
LifeDraws == {0, 29}
\* static_cast<int>((rand_float - 0.5f) * turbulence * 20.0f): -1 when the
\* draw is exactly 0.0f, 0 for every other draw of [0,1)
TurbDraws == {-1, 0}
\* -rand_float * 3.0f, in tenths
SpawnVyDraws == {-10, 0}
\* (rand_float - 0.5f) * 4.0f, in tenths
ExplosionVyDraws == {-20, 0}
\* an int read before it was ever written holds any value
Indeterminate == {-1, 100}

ZeroGrid == [y \in Rows |-> [x \in Cols |-> 0]]

\* TLC evaluates the argument of an operator when it is first read.  A loop
\* that hands the engine on without reading it leaves its writes to be
\* evaluated all at once, nested in each other; the loops that do not read a
\* cell in their test read the shape of the grid instead (true of every
\* engine: both grids have height rows from construction on).
HasGrid(e) == DOMAIN e.new_heat_grid = Rows

(* ---------------- cell writes, with the range of written values -------- *)
Log(e, v) ==
  [e EXCEPT !.write_lo = IF v < @ THEN v ELSE @,
            !.write_hi = IF v > @ THEN v ELSE @]

write_heat(e, y, x, v) == Log([e EXCEPT !.heat_grid[y][x] = v], v)
write_new(e, y, x, v) == Log([e EXCEPT !.new_heat_grid[y][x] = v], v)

ClearLog(e) == [e EXCEPT !.write_lo = 0, !.write_hi = 0]

set_heat_at(e, x, y, heat) ==
  IF x >= 0 /\ x < width /\ y >= 0 /\ y < height
  THEN write_new(e, y, x, clamp_heat(heat))
  ELSE e

get_heat_at(e, x, y) ==
  IF x < 0 \/ x >= width \/ y < 0 \/ y >= height THEN 0 ELSE e.heat_grid[y][x]

(* ---------------- reset ---------------- *)
RECURSIVE reset_band(_, _, _)
reset_band(e, x, r) ==
  IF x >= (3 * width) \div 4 THEN e
  ELSE reset_band(write_heat(e, height - 1, x, base_heat + (r % 20)), x + 1, r)

reset_keep_shadow(e, r) ==
  LET cleared == [ClearLog(e) EXCEPT !.heat_grid = ZeroGrid,
                                     !.particles = <<>>,
                                     !.wind_strength = 0,
                                     !.wind_direction = 0,
                                     !.fuel_amount = 50,
                                     !.frame_count = 0]
  IN IF height > 0 THEN reset_band(cleared, width \div 4, r) ELSE cleared
reset(e, r) ==
  LET cleared == [ClearLog(e) EXCEPT !.heat_grid = ZeroGrid,
                                     !.new_heat_grid = ZeroGrid,
                                     !.particles = <<>>,
                                     !.wind_strength = 0,
                                     !.wind_direction = 0,
                                     !.fuel_amount = 50,
                                     !.frame_count = 0]
  IN IF height > 0 THEN reset_band(cleared, width \div 4, r) ELSE cleared

(* ---------------- controls ---------------- *)
set_wind_publishing(e, strength) ==
  [ClearLog(e) EXCEPT !.wind_strength = float_clamp(strength, -5, 5),
            !.wind_direction = IF float_less(0, strength) THEN 1 ELSE -1,
            !.stats.wind_speed = float_clamp(strength, -5, 5)]
set_wind(e, strength) ==
  [ClearLog(e) EXCEPT !.wind_strength = float_clamp(strength, -5, 5),
            !.wind_direction = IF float_less(0, strength) THEN 1 ELSE -1]

add_fuel_unclamped(e, amount) ==
  [ClearLog(e) EXCEPT !.fuel_amount = e.fuel_amount + amount]
add_fuel(e, amount) ==
  [ClearLog(e) EXCEPT
     !.fuel_amount = clamp(wrap_add(e.fuel_amount, amount), 0, 100)]

set_color_scheme(e, scheme) == [ClearLog(e) EXCEPT !.current_scheme = scheme]

get_stats(e) == e.stats
\* render() draws the cells and the particles and writes no member
render(e) == e

(* ---------------- add_fuel_source ---------------- *)
fuel_width == Max(1, width \div 3)
start_x == (width - fuel_width) \div 2

\* rand_int(rng) % (fuel_amount / 2).  A zero divisor is undefined
\* behaviour: the build either traps (modelled by the caller, see Update)
\* or, where integer division does not trap, leaves the dividend.
RandMod(r, m) == IF m = 0 THEN r ELSE r % m

\* (fuel_amount * 0.8f) + (rand_int(rng) % (fuel_amount / 2)), as an int
fuel_heat(fuel_amount, r) ==
  Trunc(8 * fuel_amount, 10) + RandMod(r, fuel_amount \div 2)

RECURSIVE fuel_loop(_, _, _)
fuel_loop(e, x, r) ==
  IF x >= start_x + fuel_width THEN e
  ELSE fuel_loop(
         IF x >= 0 /\ x < width
         THEN write_heat(e, height - 1, x,
                Max(e.heat_grid[height - 1][x], fuel_heat(e.fuel_amount, r)))
         ELSE e,
         x + 1, r)

add_fuel_source(e, r) ==
  IF e.fuel_amount <= 0 \/ height = 0 THEN e ELSE fuel_loop(e, start_x, r)

\* the modulus of add_fuel_source is evaluated with a zero divisor
FuelDivisorZero(e) ==
  e.fuel_amount > 0 /\ height # 0 /\ e.fuel_amount \div 2 = 0

(* ---------------- apply_wind_effects ---------------- *)
wind_offset(e, y) == Trunc(e.wind_strength * (height - y), height)

\* the cell moves heat: heat > 0, wind_offset != 0 and target_x in bounds.
\* static_cast<int> of a NaN product is undefined: the builds give INT_MIN
\* or 0, and with either no cell has a target in bounds
wind_moves(e, y, x) ==
  /\ ~is_nan(e.wind_strength)
  /\ e.heat_grid[y][x] > 0
  /\ wind_offset(e, y) # 0
  /\ x + wind_offset(e, y) >= 0
  /\ x + wind_offset(e, y) < width

wind_cell(e, y, x) ==
  LET target_x == x + wind_offset(e, y)
      moved_heat == (2 * e.heat_grid[y][x]) \div 10
      e1 == write_new(e, y, target_x, e.new_heat_grid[y][target_x] + moved_heat)
  IN write_new(e1, y, x, e1.new_heat_grid[y][x] - moved_heat)

RECURSIVE wind_loop(_, _)
wind_loop(e, k) ==
  IF k >= width * height THEN e
  ELSE IF 10 * (k \div width) < 8 * height /\ wind_moves(e, k \div width, k % width)
       THEN wind_loop(wind_cell(e, k \div width, k % width), k + 1)
       ELSE wind_loop(e, k + 1)

\* std::abs(wind_strength) < 0.1f is false for NaN
apply_wind_effects(e) ==
  IF float_less(e.wind_strength, 1) /\ float_less(-1, e.wind_strength)
  THEN e ELSE wind_loop(e, 0)

(* ---------------- update_heat_diffusion ---------------- *)
\* (the rise share is taken from a cell of the top row as well)
retained_rising_everywhere(current_heat, y, x) ==
  85 * current_heat
  - 30 * current_heat
  - (IF x > 0 THEN 10 * current_heat ELSE 0)
  - (IF x < width - 1 THEN 10 * current_heat ELSE 0)

\* new_heat of the cell itself, in hundredths
retained(current_heat, y, x) ==
  85 * current_heat
  - (IF y > 0 THEN 30 * current_heat ELSE 0)
  - (IF x > 0 THEN 10 * current_heat ELSE 0)
  - (IF x < width - 1 THEN 10 * current_heat ELSE 0)

diffuse_neighbours(e, y, x) ==
  LET current_heat == e.heat_grid[y][x]
      e1 == IF y > 0
            THEN write_new(e, y - 1, x,
                           e.new_heat_grid[y - 1][x] + (3 * current_heat) \div 10)
            ELSE e
      e2 == IF x > 0
            THEN write_new(e1, y, x - 1,
                           e1.new_heat_grid[y][x - 1] + current_heat \div 10)
            ELSE e1
  IN IF x < width - 1
     THEN write_new(e2, y, x + 1,
                    e2.new_heat_grid[y][x + 1] + current_heat \div 10)
     ELSE e2

diffuse_cell_accumulate(e, y, x) ==
  LET e3 == diffuse_neighbours(e, y, x)
  IN write_new(e3, y, x,
               clamp_heat(e3.new_heat_grid[y][x]
                          + Trunc(retained(e.heat_grid[y][x], y, x), 100)))
\* a cell with current_heat > 0
diffuse_cell(e, y, x) ==
  write_new(diffuse_neighbours(e, y, x), y, x,
            clamp_heat(Trunc(retained(e.heat_grid[y][x], y, x), 100)))

\* (a cell without heat is passed over: its next-grid value is not set to 0)
RECURSIVE diffusion_loop_keeping_cold(_, _)
diffusion_loop_keeping_cold(e, k) ==
  IF k >= width * height \/ ~HasGrid(e) THEN e
  ELSE IF e.heat_grid[k \div width][k % width] <= 0
       THEN diffusion_loop_keeping_cold(e, k + 1)
       ELSE diffusion_loop_keeping_cold(diffuse_cell(e, k \div width, k % width), k + 1)

RECURSIVE diffusion_loop(_, _)
diffusion_loop(e, k) ==
  IF k >= width * height THEN e
  ELSE IF e.heat_grid[k \div width][k % width] <= 0
       THEN diffusion_loop(write_new(e, k \div width, k % width, 0), k + 1)
       ELSE diffusion_loop(diffuse_cell(e, k \div width, k % width), k + 1)

update_heat_diffusion(e) == diffusion_loop(e, 0)

(* ---------------- add_turbulence ---------------- *)
turbulence_cell(e, y, x, t) ==
  LET e1 == write_new(e, y, x, e.new_heat_grid[y][x] + t)
  IN write_new(e1, y, x, clamp_heat(e1.new_heat_grid[y][x]))

RECURSIVE turbulence_loop(_, _, _)
turbulence_loop(e, k, t) ==
  IF k >= width * height THEN e
  ELSE IF e.heat_grid[k \div width][k % width] > 20
       THEN turbulence_loop(turbulence_cell(e, k \div width, k % width, t), k + 1, t)
       ELSE turbulence_loop(e, k + 1, t)

add_turbulence(e, t) == turbulence_loop(e, 0, t)

(* ---------------- particles ---------------- *)
\* FireParticle(px, py, h): vy(0), heat(h), life(100)
FireParticle(py, h) == [y |-> 10 * py, vy |-> 0, heat |-> h, life |-> 100]

move_particle(p) ==
  [y |-> p.y + p.vy, vy |-> p.vy - 1, heat |-> p.heat - 2, life |-> p.life - 1]

is_dead(p) == p.life <= 0 \/ p.heat <= 0 \/ p.y < 0

\* (the loop with ++it after an erase: the particle behind an erased one is
\* neither moved nor tested)
RECURSIVE skipping_loop(_, _)
skipping_loop(ps, i) ==
  IF i > Len(ps) THEN ps
  ELSE IF is_dead(move_particle(ps[i]))
       THEN skipping_loop(SubSeq(ps, 1, i - 1) \o SubSeq(ps, i + 1, Len(ps)), i + 1)
       ELSE skipping_loop([ps EXCEPT ![i] = move_particle(ps[i])], i + 1)

\* every particle is moved; the dead ones are erased, the others keep their
\* order
update_particles_skipping(e) ==
  [e EXCEPT !.particles = skipping_loop(@, 1)]
update_particles(e) ==
  [e EXCEPT !.particles =
     SelectSeq([i \in 1..Len(@) |-> move_particle(@[i])], LAMBDA p : ~is_dead(p))]

\* d.spawn: rand_float(rng) < 0.1f at the hot cells; d.life: the rand_int
\* draw of the lifetime; d.vy: -rand_float(rng) * 3.0f in tenths
RECURSIVE generate_loop(_, _, _)
generate_loop(ps, k, args) ==
  IF k >= width * height THEN ps
  ELSE LET heat == args.grid[k \div width][k % width]
       IN IF heat > 60 /\ args.d.spawn
          THEN LET pushed == Append(ps, [FireParticle(k \div width, heat) EXCEPT
                                 !.vy = args.d.vy, !.life = 20 + (args.d.life % 30)])
               IN IF Len(pushed) >= max_particles THEN pushed
                  ELSE generate_loop(pushed, k + 1, args)
          ELSE generate_loop(ps, k + 1, args)

generate_particles(e, d) ==
  IF Len(e.particles) >= max_particles THEN e
  ELSE [e EXCEPT !.particles =
          generate_loop(@, (height \div 2) * width, [grid |-> e.heat_grid, d |-> d])]

(* ---------------- update_statistics ---------------- *)
RECURSIVE SumHeat(_, _)
SumHeat(grid, k) ==
  IF k >= width * height THEN 0
  ELSE Max(grid[k \div width][k % width], 0) + SumHeat(grid, k + 1)

HotCells(grid) == {c \in Rows \X Cols : grid[c[1]][c[2]] > 0}

RECURSIVE MaxHeat_accumulate(_, _)
MaxHeat_accumulate(grid, k) ==
  IF k >= width * height THEN 0
  ELSE Max(grid[k \div width][k % width], 0) + MaxHeat_accumulate(grid, k + 1)

RECURSIVE MaxHeat(_, _)
MaxHeat(grid, k) ==
  IF k >= width * height THEN 0
  ELSE Max(Max(grid[k \div width][k % width], 0), MaxHeat(grid, k + 1))

statistics_of(e, grid) ==
  [e EXCEPT !.stats = [total_heat |-> SumHeat(grid, 0),
                       active_pixels |-> Cardinality(HotCells(grid)),
                       max_temp |-> MaxHeat(grid, 0),
                       wind_speed |-> e.wind_strength,
                       fuel_level |-> e.fuel_amount,
                       frames_rendered |-> e.frame_count]]

update_statistics(e) == statistics_of(e, e.heat_grid)

(* ---------------- update ---------------- *)
swap(e) == [e EXCEPT !.heat_grid = e.new_heat_grid, !.new_heat_grid = e.heat_grid]

\* (generate_particles is called by every update())
update_phases_spawning_always(e, d) ==
  LET e0 == [ClearLog(e) EXCEPT !.update_counter = @ + 1]
      e1 == add_fuel_source(e0, d.fuel)
      e2 == apply_wind_effects(e1)
      e3 == update_heat_diffusion(e2)
      e4 == add_turbulence(e3, d.turb)
      e5 == update_particles(e4)
  IN generate_particles(e5, d)

\* d: the random draws of the call, [fuel, turb, spawn, life, vy]
update_phases(e, d) ==
  LET e0 == [ClearLog(e) EXCEPT !.update_counter = @ + 1]
      e1 == add_fuel_source(e0, d.fuel)
      e2 == apply_wind_effects(e1)
      e3 == update_heat_diffusion(e2)
      e4 == add_turbulence(e3, d.turb)
      e5 == update_particles(e4)
  IN IF e5.update_counter % 2 = 0 THEN generate_particles(e5, d) ELSE e5

update_no_swap(e, d) ==
  LET e7 == update_statistics(update_phases(e, d))
  IN [e7 EXCEPT !.frame_count = @ + 1]
update(e, d) ==
  LET e7 == update_statistics(swap(update_phases(e, d)))
  IN [e7 EXCEPT !.frame_count = @ + 1]

(* ---------------- ignite_at / create_explosion ---------------- *)
\* main builds the engine as FireEngine(max_x - 20, max_y - 5)
max_x == width + 20
max_y == height + 5
offset_x == (max_x - width) \div 2
offset_y == (max_y - height) \div 2

\* the cell at offset (dx, dy) of the explosion
explosion_cell(e, x, y, intensity, dy, dx) ==
  LET distance == dx * dx + dy * dy
      r2 == explosion_radius * explosion_radius
  IN IF distance <= r2
     THEN set_heat_at(e, x + dx, y + dy, Trunc(intensity * (r2 - distance), r2))
     ELSE e

\* the inner loop: dx from -radius to radius
RECURSIVE explosion_row(_, _, _, _, _, _)
explosion_row(e, x, y, intensity, dy, dx) ==
  IF dx > explosion_radius \/ ~HasGrid(e) THEN e
  ELSE explosion_row(explosion_cell(e, x, y, intensity, dy, dx),
                     x, y, intensity, dy, dx + 1)

\* the outer loop: dy from -radius to radius
RECURSIVE explosion_cells(_, _, _, _, _)
explosion_cells(e, x, y, intensity, dy) ==
  IF dy > explosion_radius \/ ~HasGrid(e) THEN e
  ELSE explosion_cells(explosion_row(e, x, y, intensity, dy, -explosion_radius),
                       x, y, intensity, dy + 1)

RECURSIVE explosion_push_unguarded(_, _, _)
explosion_push_unguarded(ps, p, i) ==
  IF i >= explosion_particles THEN ps
  ELSE explosion_push_unguarded(Append(ps, p), p, i + 1)

RECURSIVE explosion_push(_, _, _)
explosion_push(ps, p, i) ==
  IF i >= explosion_particles THEN ps
  ELSE explosion_push(IF Len(ps) < max_particles THEN Append(ps, p) ELSE ps,
                      p, i + 1)

\* (the particles keep the life the constructor gives them)
create_explosion_default_life(e, x, y, intensity, d) ==
  LET e1 == explosion_cells(e, x, y, intensity, -explosion_radius)
      p == [FireParticle(y, intensity) EXCEPT !.vy = d.vy]
  IN [e1 EXCEPT !.particles = explosion_push(@, p, 0)]

\* d: [life |-> rand_int draw, vy |-> (rand_float - 0.5f) * 4.0f in tenths]
create_explosion(e, x, y, intensity, d) ==
  LET e1 == explosion_cells(e, x, y, intensity, -explosion_radius)
      p == [FireParticle(y, intensity) EXCEPT !.vy = d.vy,
                                              !.life = 30 + (d.life % 20)]
  IN [e1 EXCEPT !.particles = explosion_push(@, p, 0)]

ignite_at(e, x, y, d) ==
  create_explosion(ClearLog(e), x - offset_x, y - offset_y, explosion_intensity, d)

(* ---------------- construction ---------------- *)
IndeterminateStats(g) ==
  [total_heat |-> g, active_pixels |-> g, max_temp |-> g,
   wind_speed |-> g, fuel_level |-> g, frames_rendered |-> g]

FireEngine(r, g) ==
  reset([heat_grid |-> ZeroGrid, new_heat_grid |-> ZeroGrid,
         wind_strength |-> 0, wind_direction |-> 0, fuel_amount |-> 50,
         particles |-> <<>>, stats |-> IndeterminateStats(g),
         frame_count |-> 0, current_scheme |-> CLASSIC_FIRE,
         update_counter |-> 0, write_lo |-> 0, write_hi |-> 0], r)

Call(op, a, b) == [op |-> op, a |-> a, b |-> b]

\* InputHandler::InputHandler
InputHandler ==
  [help_visible |-> FALSE, stats_visible |-> FALSE, mouse_enabled |-> FALSE,
   last_key |-> -1, repeat_count |-> 0]

\* UIManager::UIManager; the animation counters are frame_counter modulo 30,
\* 20 and 40, and smooth_fps and smooth_temp follow the wall clock and the
\* average temperature: they are left out
UIManager ==
  [current_scheme |-> CLASSIC_FIRE, help_visible |-> FALSE,
   stats_detailed |-> FALSE, smooth_fuel |-> 50, frame_counter |-> 0]

\* the locals of main before its loop; pc is the position of main ("loop":
\* at the test of the while, "cleanup": behind the loop, "return": ended),
\* and cleaned_up tells that cleanup_display() has run
MainLoop ==
  [running |-> TRUE, paused |-> FALSE, frame_count |-> 0, first_frame |-> TRUE,
   pc |-> "loop", cleaned_up |-> FALSE]

\* while (running && !should_exit)
loop_condition_running_only(m, exit) == m.running
loop_condition(m, exit) == m.running /\ ~exit

(* ---------------- colors.h ---------------- *)
\* the colour of a heat level of 100 or more
full_heat_color(scheme) ==
  IF scheme = CLASSIC_FIRE THEN FIRE_WHITE
  ELSE IF scheme = BLUE_FLAME THEN FIRE_CYAN
  ELSE IF scheme = ICE_FIRE THEN FIRE_WHITE
  ELSE IF scheme = PLASMA THEN FIRE_MAGENTA
  ELSE IF scheme = RAINBOW THEN FIRE_YELLOW
  ELSE IF scheme = MATRIX THEN FIRE_GREEN
  ELSE FIRE_WHITE

\* the colour of a heat level in 1..99
band_color_ice_as_blue(heat_level, scheme) ==
  IF scheme = CLASSIC_FIRE
  THEN IF heat_level < 20 THEN FIRE_RED
       ELSE IF heat_level < 40 THEN FIRE_ORANGE
       ELSE IF heat_level < 70 THEN FIRE_YELLOW
       ELSE FIRE_WHITE
  ELSE IF scheme = BLUE_FLAME
  THEN IF heat_level < 30 THEN FIRE_BLUE
       ELSE IF heat_level < 60 THEN FIRE_CYAN
       ELSE FIRE_WHITE
  ELSE IF scheme = ICE_FIRE
  THEN IF heat_level < 30 THEN FIRE_CYAN
       ELSE IF heat_level < 60 THEN FIRE_WHITE
       ELSE FIRE_YELLOW
  ELSE IF scheme = PLASMA
  THEN IF heat_level < 30 THEN FIRE_MAGENTA
       ELSE IF heat_level < 60 THEN FIRE_CYAN
       ELSE FIRE_WHITE
  ELSE IF scheme = RAINBOW
  THEN FIRE_RED + ((heat_level \div 15) % 6)
  ELSE IF scheme = MATRIX
  THEN IF heat_level < 40 THEN FIRE_GREEN ELSE FIRE_YELLOW
  ELSE FIRE_RED
band_color(heat_level, scheme) ==
  IF scheme = CLASSIC_FIRE
  THEN IF heat_level < 20 THEN FIRE_RED
       ELSE IF heat_level < 40 THEN FIRE_ORANGE
       ELSE IF heat_level < 70 THEN FIRE_YELLOW
       ELSE FIRE_WHITE
  ELSE IF scheme = BLUE_FLAME
  THEN IF heat_level < 30 THEN FIRE_BLUE
       ELSE IF heat_level < 60 THEN FIRE_CYAN
       ELSE FIRE_WHITE
  ELSE IF scheme = ICE_FIRE
  THEN IF heat_level < 25 THEN FIRE_CYAN
       ELSE IF heat_level < 50 THEN FIRE_WHITE
       ELSE FIRE_YELLOW
  ELSE IF scheme = PLASMA
  THEN IF heat_level < 30 THEN FIRE_MAGENTA
       ELSE IF heat_level < 60 THEN FIRE_CYAN
       ELSE FIRE_WHITE
  ELSE IF scheme = RAINBOW
  THEN FIRE_RED + ((heat_level \div 15) % 6)
  ELSE IF scheme = MATRIX
  THEN IF heat_level < 40 THEN FIRE_GREEN ELSE FIRE_YELLOW
  ELSE FIRE_RED

get_fire_color(heat_level, scheme) ==
  IF heat_level <= 0 THEN FIRE_BLACK
  ELSE IF heat_level >= 100 THEN full_heat_color(scheme)
  ELSE band_color(heat_level, scheme)

get_fire_char_strict(heat_level) ==
  IF heat_level <= 0 THEN " "
  ELSE IF heat_level <= 15 THEN "."
  ELSE IF heat_level < 30 THEN ":"
  ELSE IF heat_level < 50 THEN "^"
  ELSE IF heat_level < 70 THEN "A"
  ELSE IF heat_level < 90 THEN "W"
  ELSE "#"
get_fire_char(heat_level) ==
  IF heat_level <= 0 THEN " "
  ELSE IF heat_level < 15 THEN "."
  ELSE IF heat_level < 30 THEN ":"
  ELSE IF heat_level < 50 THEN "^"
  ELSE IF heat_level < 70 THEN "A"
  ELSE IF heat_level < 90 THEN "W"
  ELSE "#"

\* one cell as it is drawn: its colour and its glyph
Cell(heat_level, scheme) ==
  [heat_level |-> heat_level, scheme |-> scheme,
   color |-> get_fire_color(heat_level, scheme),
   fire_char |-> get_fire_char(heat_level)]

(* ---------------- snake.cpp ---------------- *)
\* the keys of the snake game, by their character codes
KEY_W == 119
KEY_A == 97
KEY_S == 115
KEY_D == 100
KEY_Q == 113
KEY_R == 114
KEY_SPACE == 32

Point(x, y) == [x |-> x, y |-> y]

\* tolower on the character codes
tolower(key) == IF key \in 65..90 THEN key + 32 ELSE key

Segments(snake) == {snake[i] : i \in 1..Len(snake)}

\* rand() % (WIDTH - 4) + 2 and rand() % (HEIGHT - 4) + 2
FoodRegion == {Point(x, y) : x \in 2..(WIDTH - 3), y \in 2..(HEIGHT - 3)}

\* the draws on which the do-while of spawn_food ends: the loop draws again
\* while the food is on a segment, and does not end when no cell is free
FoodDraws_unchecked(snake) == FoodRegion
FoodDraws(snake) == {p \in FoodRegion : p \notin Segments(snake)}

\* p: the last draw of the loop
spawn_food(g, p) == [g EXCEPT !.food = p]

\* the globals of snake.cpp before main; exited: exit(0) has been called;
\* ticks: the calls of update_game that moved or ended a snake
SnakeGame ==
  [snake |-> <<>>, food |-> Point(0, 0), score |-> 0, high_score |-> 0,
   direction |-> KEY_W, next_direction |-> KEY_W, game_over |-> FALSE,
   game_started |-> FALSE, exited |-> FALSE, ticks |-> 0]

init_game(g, p) ==
  LET head_x == WIDTH \div 2
      head_y == HEIGHT \div 2
      body == <<Point(head_x, head_y), Point(head_x, head_y + 1),
                Point(head_x, head_y + 2)>>
  IN [spawn_food([g EXCEPT !.snake = body], p) EXCEPT
        !.score = 0, !.direction = KEY_W, !.next_direction = KEY_W,
        !.game_over = FALSE, !.game_started = TRUE]

\* the snake that spawn_food sees when init_game calls it
InitialSnake == init_game(SnakeGame, Point(0, 0)).snake

\* (the direction keys are tested against next_direction)
handle_input_guarding_next(g, pressed, p) ==
  LET key == tolower(pressed)
  IN IF ~g.game_started
     THEN IF key = KEY_SPACE THEN init_game(g, p) ELSE g
     ELSE IF key = KEY_W
     THEN IF g.next_direction # KEY_S THEN [g EXCEPT !.next_direction = KEY_W] ELSE g
     ELSE IF key = KEY_S
     THEN IF g.next_direction # KEY_W THEN [g EXCEPT !.next_direction = KEY_S] ELSE g
     ELSE IF key = KEY_A
     THEN IF g.next_direction # KEY_D THEN [g EXCEPT !.next_direction = KEY_A] ELSE g
     ELSE IF key = KEY_D
     THEN IF g.next_direction # KEY_A THEN [g EXCEPT !.next_direction = KEY_D] ELSE g
     ELSE IF key = KEY_Q THEN [g EXCEPT !.exited = TRUE]
     ELSE IF key \in {KEY_R, KEY_SPACE}
     THEN IF g.game_over THEN init_game(g, p) ELSE g
     ELSE g

\* handle_input with a key waiting; p: the draw of spawn_food
handle_input(g, pressed, p) ==
  LET key == tolower(pressed)
  IN IF ~g.game_started
     THEN IF key = KEY_SPACE THEN init_game(g, p) ELSE g
     ELSE IF key = KEY_W
     THEN IF g.direction # KEY_S THEN [g EXCEPT !.next_direction = KEY_W] ELSE g
     ELSE IF key = KEY_S
     THEN IF g.direction # KEY_W THEN [g EXCEPT !.next_direction = KEY_S] ELSE g
     ELSE IF key = KEY_A
     THEN IF g.direction # KEY_D THEN [g EXCEPT !.next_direction = KEY_A] ELSE g
     ELSE IF key = KEY_D
     THEN IF g.direction # KEY_A THEN [g EXCEPT !.next_direction = KEY_D] ELSE g
     ELSE IF key = KEY_Q THEN [g EXCEPT !.exited = TRUE]
     ELSE IF key \in {KEY_R, KEY_SPACE}
     THEN IF g.game_over THEN init_game(g, p) ELSE g
     ELSE g

\* the head moved one cell in the direction
moved_head(head, direction) ==
  IF direction = KEY_W THEN Point(head.x, head.y - 1)
  ELSE IF direction = KEY_S THEN Point(head.x, head.y + 1)
  ELSE IF direction = KEY_A THEN Point(head.x - 1, head.y)
  ELSE IF direction = KEY_D THEN Point(head.x + 1, head.y)
  ELSE head

hits_wall(new_head) ==
  \/ new_head.x <= 0 \/ new_head.x >= WIDTH - 1
  \/ new_head.y <= 0 \/ new_head.y >= HEIGHT - 1

end_game(g) ==
  [g EXCEPT !.game_over = TRUE,
            !.high_score = IF g.score > @ THEN g.score ELSE @]

\* p: the draw of spawn_food
update_game_walls_only(g, p) ==
  IF ~g.game_started \/ g.game_over THEN g
  ELSE LET g1 == [g EXCEPT !.direction = g.next_direction, !.ticks = @ + 1]
           new_head == moved_head(g1.snake[1], g1.direction)
           grown == <<new_head>> \o g1.snake
       IN IF hits_wall(new_head) THEN end_game(g1)
          ELSE IF new_head = g1.food
          THEN spawn_food([g1 EXCEPT !.snake = grown, !.score = @ + 10], p)
          ELSE [g1 EXCEPT !.snake = SubSeq(grown, 1, Len(grown) - 1)]
update_game(g, p) ==
  IF ~g.game_started \/ g.game_over THEN g
  ELSE LET g1 == [g EXCEPT !.direction = g.next_direction, !.ticks = @ + 1]
           new_head == moved_head(g1.snake[1], g1.direction)
           grown == <<new_head>> \o g1.snake
       IN IF hits_wall(new_head) THEN end_game(g1)
          ELSE IF new_head \in Segments(g1.snake) THEN end_game(g1)
          ELSE IF new_head = g1.food
          THEN spawn_food([g1 EXCEPT !.snake = grown, !.score = @ + 10], p)
          ELSE [g1 EXCEPT !.snake = SubSeq(grown, 1, Len(grown) - 1)]

\* the run of calls of process_input with one key code, before any call
KeyRun ==
  [key |-> KEY_NONE, position |-> 0, call_key |-> KEY_NONE,
   accepted |-> FALSE, action |-> "NONE"]

Init ==
  /\ \E r \in ResetDraws, g \in Indeterminate : fire_engine = FireEngine(r, g)
  /\ control_engine = fire_engine
  /\ calls = Call("FireEngine", 0, 0)
  /\ crashed = FALSE
  /\ ignitions = 0
  /\ input_handler = InputHandler
  /\ ui_manager = UIManager
  /\ main_loop = MainLoop
  /\ should_exit = FALSE
  /\ key_run = KeyRun
  /\ display = Cell(0, CLASSIC_FIRE)
  /\ snake_game = SnakeGame

(* ---------------- InputHandler ---------------- *)
\* the keys, by their character codes
QuitKeys == {113, 81, 27}
WindLeftKeys == {119, 87, 97, 65}
WindRightKeys == {101, 69, 100, 68}
IncreaseFuelKeys == {43, 61}
DecreaseFuelKeys == {45, 95}
ResetKeys == {114, 82}
PauseKeys == {32}
ColorKeys == {99, 67}
HelpKeys == {104, 72, 63}
StatsKeys == {115, 83}
ScreenshotKeys == {112, 80}

\* the keys that may repeat (movement, fuel)
RepeatingKeys ==
  WindLeftKeys \cup WindRightKeys \cup IncreaseFuelKeys \cup DecreaseFuelKeys

\* the result and the handler after the call
should_process_key_every_second(h, key) ==
  IF key = h.last_key
  THEN [ok |-> IF key \in RepeatingKeys
               THEN (h.repeat_count + 1) % 2 = 0
               ELSE h.repeat_count + 1 = 1,
        handler |-> [h EXCEPT !.repeat_count = @ + 1]]
  ELSE [ok |-> TRUE, handler |-> [h EXCEPT !.last_key = key, !.repeat_count = 1]]
should_process_key(h, key) ==
  IF key = h.last_key
  THEN [ok |-> IF key \in RepeatingKeys
               THEN (h.repeat_count + 1) % 3 = 0
               ELSE h.repeat_count + 1 = 1,
        handler |-> [h EXCEPT !.repeat_count = @ + 1]]
  ELSE [ok |-> TRUE, handler |-> [h EXCEPT !.last_key = key, !.repeat_count = 1]]

key_action(key) ==
  IF key \in QuitKeys THEN "QUIT"
  ELSE IF key \in WindLeftKeys THEN "WIND_LEFT"
  ELSE IF key \in WindRightKeys THEN "WIND_RIGHT"
  ELSE IF key \in IncreaseFuelKeys THEN "INCREASE_FUEL"
  ELSE IF key \in DecreaseFuelKeys THEN "DECREASE_FUEL"
  ELSE IF key \in ResetKeys THEN "RESET"
  ELSE IF key \in PauseKeys THEN "TOGGLE_PAUSE"
  ELSE IF key \in ColorKeys THEN "CYCLE_COLORS"
  ELSE IF key \in HelpKeys THEN "TOGGLE_HELP"
  ELSE IF key \in StatsKeys THEN "TOGGLE_STATS"
  ELSE IF key \in ScreenshotKeys THEN "SAVE_SCREENSHOT"
  ELSE "NONE"

\* the action returned and the handler after the call
process_input(h, key) ==
  IF key = KEY_NONE THEN [action |-> "NONE", handler |-> h]
  ELSE LET r == should_process_key(h, key)
       IN IF ~r.ok THEN [action |-> "NONE", handler |-> r.handler]
          ELSE [action |-> key_action(key),
                handler |-> [r.handler EXCEPT
                   !.help_visible = IF key \in HelpKeys THEN ~@ ELSE @,
                   !.stats_visible = IF key \in StatsKeys THEN ~@ ELSE @]]

(* ---------------- UIManager ---------------- *)
\* rounding to the nearest float (24 significant bits, ties to even) of
\* n * 2^-24
RECURSIVE float_scale(_)
float_scale(n) == IF n < float_unit THEN 1 ELSE 2 * float_scale(n \div 2)

round_magnitude(n) ==
  LET q == float_scale(n)
      m == n \div q
      r == n % q
  IN IF 2 * r > q \/ (2 * r = q /\ m % 2 = 1) THEN (m + 1) * q ELSE m * q

round_float(n) == IF n < 0 THEN -round_magnitude(-n) ELSE round_magnitude(n)

\* static_cast<int>(smooth_fuel * alpha + stats.fuel_level * (1.0f - alpha))
smooth_fuel_of(smooth_fuel, fuel_level) ==
  Trunc(round_float(round_float(smooth_fuel * stat_smoothing)
                    + round_float(fuel_level * stat_weight)),
        float_unit)

smooth_statistics(ui, stats) ==
  [ui EXCEPT !.smooth_fuel = smooth_fuel_of(@, stats.fuel_level)]

\* UIManager::render
ui_render(ui, stats) ==
  [smooth_statistics(ui, stats) EXCEPT !.frame_counter = @ + 1]

cycle_color_scheme(ui) ==
  [ui EXCEPT !.current_scheme = (@ + 1) % NUM_COLOR_SCHEMES]

set_help_visible(ui, visible) == [ui EXCEPT !.help_visible = visible]
set_stats_detailed(ui, detailed) == [ui EXCEPT !.stats_detailed = detailed]

(* ---------------- the calls of a client of the engine ---------------- *)
WindInputs == {7}
FuelInputs == {-1000, 1000}
SchemeInputs == {NUM_COLOR_SCHEMES - 1}
\* screen coordinates handed to ignite_at
IgnitePoints ==
  {<<offset_x + 1, offset_y + 1>>, <<offset_x, offset_y + 1>>, <<offset_x, offset_y - 1>>}
\* the draws made at the cells in one update(): the turbulence draw and the
\* draws of generate_particles (spawn, lifetime, upward velocity)
SpawnDraws == {[turb |-> 0, spawn |-> FALSE, life |-> 0, vy |-> 0],
               [turb |-> -1, spawn |-> TRUE, life |-> 29, vy |-> -10]}
UpdateDraws ==
  {[fuel |-> f, turb |-> s.turb, spawn |-> s.spawn, life |-> s.life, vy |-> s.vy] :
     f \in FuelDraws, s \in SpawnDraws}
ExplosionDraws == {[life |-> 19, vy |-> -10]}
\* the draws of an update() of an engine without fuel: the fuel draw is not
\* made, and no particle is spawned
ColdDraws ==
  {[fuel |-> 0, turb |-> t, spawn |-> FALSE, life |-> 0, vy |-> 0] : t \in TurbDraws}

Record(c) == calls' = c

Reset ==
  /\ ~crashed
  /\ \E r \in ResetDraws : fire_engine' = reset(fire_engine, r)
  /\ Record(Call("reset", 0, 0))
  /\ UNCHANGED <<control_engine, crashed, ignitions, application, standalone>>

SetWind ==
  /\ ~crashed
  /\ \E s \in WindInputs :
       /\ fire_engine' = set_wind(fire_engine, s)
       /\ Record(Call("set_wind", s, 0))
  /\ UNCHANGED <<control_engine, crashed, ignitions, application, standalone>>

AddFuelOf(amounts) ==
  /\ ~crashed
  /\ \E amount \in amounts :
       /\ fire_engine' = add_fuel(fire_engine, amount)
       /\ Record(Call("add_fuel", amount, 0))
  /\ UNCHANGED <<control_engine, crashed, ignitions, application, standalone>>

AddFuel == AddFuelOf(FuelInputs)

SetColorScheme ==
  /\ ~crashed
  /\ \E scheme \in SchemeInputs :
       /\ fire_engine' = set_color_scheme(fire_engine, scheme)
       /\ Record(Call("set_color_scheme", scheme, 0))
  /\ UNCHANGED <<control_engine, crashed, ignitions, application, standalone>>

IgniteCallOf(points, draws) ==
  /\ ~crashed
  /\ \E pt \in points, d \in draws :
       /\ fire_engine' = ignite_at(fire_engine, pt[1], pt[2], d)
       /\ Record(Call("ignite_at", pt[1], pt[2]))
  /\ UNCHANGED <<control_engine, crashed, application, standalone>>

IgniteCall(points) == IgniteCallOf(points, ExplosionDraws)

IgniteAt ==
  /\ ignitions < MaxIgnitions
  /\ IgniteCall(IgnitePoints)
  /\ ignitions' = ignitions + 1

\* The record of an update() call keeps what the claims about runs of calls
\* need: a, the number of update() calls made since the last reset() or
\* construction when no other call came between (0 otherwise), and b, the
\* amount of the add_fuel call made directly before it (0 when none).
UpdateCall ==
  Call("update",
       IF calls.op \in {"reset", "FireEngine"} THEN 1
       ELSE IF calls.op = "update" /\ calls.a > 0 THEN calls.a + 1
       ELSE 0,
       IF calls.op = "add_fuel" THEN calls.a ELSE 0)

\* update() returns: the modulus has a non-zero divisor, or the build's
\* division does not trap
UpdateOf(draws, bound) ==
  /\ ~crashed
  /\ fire_engine.update_counter < bound
  /\ \E d \in draws : fire_engine' = update(fire_engine, d)
  /\ Record(UpdateCall)
  /\ UNCHANGED <<control_engine, crashed, ignitions, application, standalone>>

Update == UpdateOf(UpdateDraws, MaxUpdates)

\* update() does not return: the integer division by zero traps at the
\* first cell of the fuel band, after update_counter++
UpdateTrap ==
  /\ ~crashed
  /\ fire_engine.update_counter < MaxUpdates
  /\ FuelDivisorZero(fire_engine)
  /\ fire_engine' = [fire_engine EXCEPT !.update_counter = @ + 1]
  /\ crashed' = TRUE
  /\ Record(Call("update", 0, 0))
  /\ UNCHANGED <<control_engine, ignitions, application, standalone>>

Next ==
  \/ Reset
  \/ SetWind
  \/ AddFuel
  \/ SetColorScheme
  \/ Update

Spec == Init /\ [][Next]_vars

(* ---------------- a fire left to die down, then ignited ---------------- *)
\* add_fuel with an amount that empties the fuel
Starve == AddFuelOf({-1000})

ColdUpdate == UpdateOf(ColdDraws, MaxColdUpdates)

NextCold ==
  \/ Starve
  \/ ColdUpdate
  \/ IgniteAt

SpecCold == Init /\ [][NextCold]_vars

(* ---------------- explosions until the particles are full ------------- *)
\* ignite_at aimed at the grid cell (1, 1), any number of times: a call made
\* with the particles full changes nothing, so the calls need no bound
Explode ==
  /\ IgniteCall({<<offset_x + 1, offset_y + 1>>})
  /\ UNCHANGED ignitions

\* update() of a well-fed fire: the largest fuel draw at the band
ParticleDraws == {d \in UpdateDraws : d.fuel = 99}

ParticleUpdate == UpdateOf(ParticleDraws, MaxUpdates)

NextParticles ==
  \/ Reset
  \/ ParticleUpdate
  \/ Explode

SpecParticles == Init /\ [][NextParticles]_vars

(* ---------------- two engines fed the same draws ---------------- *)
\* The engine is brought to some state; then a second engine in the same
\* state is set beside it (control_engine), set_wind is called on the first
\* only, and update() is called on both with the same draws.
Forked == calls.op \in {"set_wind_one", "update_both"}

ForkWinds == {0, 5}
PairDraws == ParticleDraws

PairSetWind == ~Forked /\ SetWind

PairWarmUp == ~Forked /\ UpdateOf(PairDraws, MaxUpdates)

SetWindOne ==
  /\ ~Forked /\ ~crashed
  /\ \E s \in ForkWinds :
       /\ fire_engine' = set_wind(fire_engine, s)
       /\ Record(Call("set_wind_one", s, 0))
  /\ control_engine' = fire_engine
  /\ UNCHANGED <<crashed, ignitions, application, standalone>>

\* a: the number of update() calls made on both since the set_wind; b: the
\* strength given to that set_wind
UpdateBothCall ==
  IF calls.op = "set_wind_one" THEN Call("update_both", 1, calls.a)
  ELSE Call("update_both", calls.a + 1, calls.b)

UpdateBoth ==
  /\ Forked /\ ~crashed
  /\ UpdateBothCall.a <= MaxPairUpdates
  /\ \E d \in PairDraws :
       /\ fire_engine' = update(fire_engine, d)
       /\ control_engine' = update(control_engine, d)
  /\ Record(UpdateBothCall)
  /\ UNCHANGED <<crashed, ignitions, application, standalone>>

NextPair ==
  \/ PairSetWind
  \/ PairWarmUp
  \/ SetWindOne
  \/ UpdateBoth

SpecPair == Init /\ [][NextPair]_vars

(* ---------------- the main loop ---------------- *)
\* the rounds of add_fuel(1), add_fuel(-1) made when the colors cycle
RECURSIVE cycle_fuel(_, _)
cycle_fuel(e, i) ==
  IF i >= cycle_fuel_rounds THEN e
  ELSE cycle_fuel(add_fuel(add_fuel(e, 1), -1), i + 1)

\* the switch on input_result.action; m holds the engine, the UI manager and
\* the locals of main
dispatch(action, m) ==
  IF action = "QUIT" THEN [m EXCEPT !.main_loop.running = FALSE]
  ELSE IF action = "WIND_LEFT"
  THEN [m EXCEPT !.fire_engine = set_wind(@, -wind_step)]
  ELSE IF action = "WIND_RIGHT"
  THEN [m EXCEPT !.fire_engine = set_wind(@, wind_step)]
  ELSE IF action = "INCREASE_FUEL"
  THEN [m EXCEPT !.fire_engine = add_fuel(@, fuel_step)]
  ELSE IF action = "DECREASE_FUEL"
  THEN [m EXCEPT !.fire_engine = add_fuel(@, -fuel_step)]
  ELSE IF action = "RESET"
  THEN [m EXCEPT !.fire_engine = reset(@, m.reset_draw)]
  ELSE IF action = "CYCLE_COLORS"
  THEN LET ui == cycle_color_scheme(m.ui_manager)
       IN [m EXCEPT !.ui_manager = ui,
                    !.fire_engine =
                       cycle_fuel(set_color_scheme(@, ui.current_scheme), 0)]
  ELSE IF action = "TOGGLE_PAUSE"
  THEN [m EXCEPT !.main_loop.paused = ~@]
  ELSE IF action = "TOGGLE_HELP"
  THEN [m EXCEPT !.ui_manager = set_help_visible(@, ~@.help_visible)]
  ELSE IF action = "TOGGLE_STATS"
  THEN [m EXCEPT !.ui_manager = set_stats_detailed(@, ~@.stats_detailed)]
  ELSE m

\* (update() is called in a paused frame as well)
frame_always_updating(m, h, key, d) ==
  LET input_result == process_input(h, key)
      m1 == dispatch(input_result.action,
                     [m EXCEPT !.main_loop.first_frame = FALSE])
      m2 == [m1 EXCEPT !.fire_engine = update(@, d)]
      m3 == IF m2.main_loop.frame_count % ui_period = 0
            THEN [m2 EXCEPT !.ui_manager = ui_render(@, get_stats(m2.fire_engine))]
            ELSE m2
  IN [main |-> [m3 EXCEPT !.main_loop.frame_count = @ + 1],
      handler |-> input_result.handler]

\* one iteration of the loop of main, from get_key_press() to frame_count++
frame(m, h, key, d) ==
  LET input_result == process_input(h, key)
      m1 == dispatch(input_result.action,
                     [m EXCEPT !.main_loop.first_frame = FALSE])
      m2 == IF ~m1.main_loop.paused
            THEN [m1 EXCEPT !.fire_engine = update(@, d)]
            ELSE m1
      m3 == IF m2.main_loop.frame_count % ui_period = 0
            THEN [m2 EXCEPT !.ui_manager = ui_render(@, get_stats(m2.fire_engine))]
            ELSE m2
  IN [main |-> [m3 EXCEPT !.main_loop.frame_count = @ + 1],
      handler |-> input_result.handler]

\* the keys read by get_key_press(): none, space, c, q, +, r and w
Keys == {KEY_NONE, 32, 99, 113, 43, 114, 119}
FrameDraws == {d \in UpdateDraws : d.fuel = 99 /\ d.spawn}

\* one iteration of the loop, with a key of the given set
FrameOf(keys, bound) ==
  /\ main_loop.pc = "loop" /\ loop_condition(main_loop, should_exit)
  /\ ~crashed
  /\ main_loop.frame_count < bound
  /\ \E key \in keys, d \in FrameDraws, r \in ResetDraws :
       LET next == frame([fire_engine |-> fire_engine, ui_manager |-> ui_manager,
                          main_loop |-> main_loop, reset_draw |-> r],
                         input_handler, key, d)
       IN /\ fire_engine' = next.main.fire_engine
          /\ ui_manager' = next.main.ui_manager
          /\ main_loop' = next.main.main_loop
          /\ input_handler' = next.handler
          /\ Record(Call("frame", key, 0))
  /\ UNCHANGED <<control_engine, crashed, ignitions, should_exit, standalone>>

Frame == FrameOf(Keys, MaxFrames)

\* signal_handler: SIGINT or SIGTERM arrives
Signal ==
  /\ ~should_exit
  /\ should_exit' = TRUE
  /\ UNCHANGED <<fire_engine, control_engine, calls, crashed, ignitions,
                 input_handler, ui_manager, main_loop, standalone>>

\* the test of the while fails: main goes on behind the try block
ExitLoop ==
  /\ main_loop.pc = "loop" /\ ~loop_condition(main_loop, should_exit)
  /\ main_loop' = [main_loop EXCEPT !.pc = "cleanup"]
  /\ UNCHANGED <<fire_engine, control_engine, calls, crashed, ignitions,
                 input_handler, ui_manager, should_exit, standalone>>

\* cleanup_display(), the farewell line and return 0
CleanupDisplay ==
  /\ main_loop.pc = "cleanup"
  /\ main_loop' = [main_loop EXCEPT !.cleaned_up = TRUE, !.pc = "return"]
  /\ UNCHANGED <<fire_engine, control_engine, calls, crashed, ignitions,
                 input_handler, ui_manager, should_exit, standalone>>

NextMain ==
  \/ Frame
  \/ Signal
  \/ ExitLoop
  \/ CleanupDisplay

SpecMain == Init /\ [][NextMain]_vars

\* main is one thread that runs on: once the test of the while fails, the
\* statements behind the loop are executed
SpecMainFair ==
  /\ Init /\ [][NextMain]_vars
  /\ WF_vars(ExitLoop) /\ WF_vars(CleanupDisplay)

(* ---------------- a fire whose fuel is taken away ---------------- *)
\* the fire burns for some calls, add_fuel empties the fuel once, and from
\* then on only update() is called: as long as the grid holds heat, and on a
\* grid without heat until the engine has counted MaxEmberUpdates calls
FedUpdate == fire_engine.fuel_amount > 0 /\ UpdateOf(ParticleDraws, MaxUpdates)

StarveOnce == fire_engine.fuel_amount > 0 /\ Starve

EmberUpdate ==
  /\ fire_engine.fuel_amount = 0
  /\ \/ fire_engine.heat_grid # ZeroGrid
     \/ fire_engine.update_counter < MaxEmberUpdates
  /\ UpdateOf(ColdDraws, fire_engine.update_counter + 1)

NextEmbers ==
  \/ FedUpdate
  \/ StarveOnce
  \/ EmberUpdate

SpecEmbers == Init /\ [][NextEmbers]_vars

\* the guard of EmberUpdate
EmberUpdateEnabled ==
  /\ ~crashed
  /\ fire_engine.fuel_amount = 0
  /\ \/ fire_engine.heat_grid # ZeroGrid
     \/ fire_engine.update_counter < MaxEmberUpdates

\* the caller keeps calling update(): weak fairness of EmberUpdate, with its
\* guard written out
SpecEmbersFair ==
  /\ Init /\ [][NextEmbers]_vars
  /\ \/ []<>(~EmberUpdateEnabled)
     \/ []<><<EmberUpdate>>_vars

(* ---------------- the fuel display following a constant level -------- *)
\* add_fuel brings the fuel to a level, one update() publishes it in the
\* statistics, and from then on the UI is rendered with these statistics:
\* as long as a render changes the smoothed value, and on a value at rest
\* until the UI has counted MaxRenders frames
LevelAmounts == {-5, 5}

LevelAddFuel == fire_engine.update_counter = 0 /\ AddFuelOf(LevelAmounts)

LevelUpdate == UpdateOf(FrameDraws, MaxStatsUpdates)

\* the guard of RenderUI
RenderUIEnabled ==
  /\ ~crashed
  /\ fire_engine.update_counter > 0
  /\ \/ ui_render(ui_manager, get_stats(fire_engine)).smooth_fuel
          # ui_manager.smooth_fuel
     \/ ui_manager.frame_counter < MaxRenders

\* ui_manager.render(fire_engine.get_stats(), paused)
RenderUI ==
  /\ RenderUIEnabled
  /\ ui_manager' = ui_render(ui_manager, get_stats(fire_engine))
  /\ Record(Call("ui_render", 0, 0))
  /\ UNCHANGED <<fire_engine, control_engine, crashed, ignitions,
                 input_handler, main_loop, should_exit, standalone>>

NextSmooth ==
  \/ LevelAddFuel
  \/ LevelUpdate
  \/ RenderUI

SpecSmooth == Init /\ [][NextSmooth]_vars

\* the main loop keeps rendering the UI
SpecSmoothFair == Init /\ [][NextSmooth]_vars /\ WF_vars(RenderUI)

(* ---------------- particles left to themselves ---------------- *)
\* explosions at the grid cell (1, 1): with the longest life and particles
\* that leave the grid at once (-1.0f), or with the shortest life and
\* particles that sink (1.9f);
\* MaxUpdates calls of update() that may spawn, and then calls that spawn
\* nothing: as long as there are particles, and without particles until the
\* engine has counted MaxFadeUpdates calls
FadeExplosionDraws == {[life |-> 19, vy |-> -10], [life |-> 0, vy |-> 19]}
FadeDraws == {d \in ParticleDraws : ~d.spawn}

FadeExplode ==
  /\ ignitions < MaxIgnitions
  /\ IgniteCallOf({<<offset_x + 1, offset_y + 1>>}, FadeExplosionDraws)
  /\ ignitions' = ignitions + 1

SpawningUpdate == UpdateOf(ParticleDraws, MaxUpdates)

FadeUpdate ==
  /\ fire_engine.update_counter >= MaxUpdates
  /\ \/ fire_engine.particles # <<>>
     \/ fire_engine.update_counter < MaxFadeUpdates
  /\ UpdateOf(FadeDraws, fire_engine.update_counter + 1)

NextFade ==
  \/ FadeExplode
  \/ SpawningUpdate
  \/ FadeUpdate

SpecFade == Init /\ [][NextFade]_vars

\* an update() can be called
FadeUpdateEnabled ==
  /\ ~crashed
  /\ \/ fire_engine.particles # <<>>
     \/ fire_engine.update_counter < MaxFadeUpdates

\* the caller keeps calling update(): weak fairness of the two update
\* actions together, with their guard written out
SpecFadeFair ==
  /\ Init /\ [][NextFade]_vars
  /\ \/ []<>(~FadeUpdateEnabled)
     \/ []<><<SpawningUpdate \/ FadeUpdate>>_vars

(* ---------------- the fuel raised to its maximum, then the colors ------ *)
\* the keys +, =, c and space: + and = alternate, so that every press of
\* them is accepted
CycleKeys == {43, 61, 99, 32}

CycleFrame == FrameOf(CycleKeys, MaxCycleFrames)

NextCycle == CycleFrame

SpecCycle == Init /\ [][NextCycle]_vars

(* ---------------- the controls of a paused simulation ---------------- *)
\* the keys space, w, +, c, h, s and r
PausedKeys == {32, 119, 43, 99, 104, 115, 114}

PausedFrame == FrameOf(PausedKeys, MaxPausedFrames)

NextPaused == PausedFrame

\* the engine as constructed with the largest draws of its reset
InitPaused == Init /\ \E g \in Indeterminate : fire_engine = FireEngine(99, g)

SpecPaused == InitPaused /\ [][NextPaused]_vars

(* ======== every operation of the engine, the readers included ======== *)
Render ==
  /\ ~crashed
  /\ fire_engine' = render(fire_engine)
  /\ Record(Call("render", 0, 0))
  /\ UNCHANGED <<control_engine, crashed, ignitions, application, standalone>>

\* a: the fuel level of the snapshot returned
GetStats ==
  /\ ~crashed
  /\ Record(Call("get_stats", get_stats(fire_engine).fuel_level, 0))
  /\ UNCHANGED <<fire_engine, control_engine, crashed, ignitions, application,
                 standalone>>

StatsUpdate == UpdateOf(FrameDraws, MaxStatsUpdates)

\* ignite_at aimed at the grid cell (1, 1)
StatsIgnite ==
  /\ ignitions < MaxIgnitions
  /\ IgniteCall({<<offset_x + 1, offset_y + 1>>})
  /\ ignitions' = ignitions + 1

NextStats ==
  \/ Reset
  \/ SetWind
  \/ AddFuel
  \/ SetColorScheme
  \/ StatsIgnite
  \/ Render
  \/ GetStats
  \/ StatsUpdate

SpecStats == Init /\ [][NextStats]_vars

(* ======== the snake game ======== *)
\* the keys read by _getch(): the bound keys, the quit key in upper case
SnakeKeys == {KEY_W, KEY_A, KEY_S, KEY_D, KEY_Q - 32, KEY_R, KEY_SPACE}

\* the draws of spawn_food in a call of handle_input: it is called, through
\* init_game, for space on the start screen and for space or r after the
\* game is over; in every other call the food stays
input_draws(g, key) ==
  IF \/ ~g.game_started /\ tolower(key) = KEY_SPACE
     \/ g.game_started /\ g.game_over /\ tolower(key) \in {KEY_R, KEY_SPACE}
  THEN FoodDraws(InitialSnake)
  ELSE {g.food}

\* the draws of spawn_food in a call of update_game: it is called when the
\* new head is on the food, and sees the snake with the new head
tick_draws(g) ==
  IF /\ g.game_started /\ ~g.game_over
     /\ moved_head(g.snake[1], g.next_direction) = g.food
  THEN FoodDraws(<<g.food>> \o g.snake)
  ELSE {g.food}

\* one pass of the loop of main with a key waiting
HandleInput ==
  /\ ~snake_game.exited
  /\ \E key \in SnakeKeys :
       \E p \in input_draws(snake_game, key) :
         /\ snake_game' = handle_input(snake_game, key, p)
         /\ Record(Call("handle_input", key, 0))
  /\ UNCHANGED <<fire_engine, control_engine, crashed, ignitions, application,
                 key_run, display>>

\* one pass of the loop of main after frame_time has elapsed
UpdateGame ==
  /\ ~snake_game.exited
  /\ snake_game.ticks < MaxTicks
  /\ \E p \in tick_draws(snake_game) :
       snake_game' = update_game(snake_game, p)
  /\ Record(Call("update_game", 0, 0))
  /\ UNCHANGED <<fire_engine, control_engine, crashed, ignitions, application,
                 key_run, display>>

NextSnake ==
  \/ HandleInput
  \/ UpdateGame

InitSnake == Init /\ fire_engine = FireEngine(0, 100)

SpecSnake == InitSnake /\ [][NextSnake]_vars

(* ======== the input handler called key by key ======== *)
\* the key codes handed to process_input: no key, a wind key, a fuel key,
\* the pause key, the help key and a key without an action ('x')
RunKeys == {KEY_NONE, 119, 43, 32, 104, 120}

\* the run after a call with the key: a call without a key reaches no
\* filter and does not end the run
next_run(run, h, key) ==
  LET r == process_input(h, key)
  IN IF key = KEY_NONE
     THEN [run EXCEPT !.call_key = key, !.accepted = FALSE, !.action = r.action]
     ELSE [key |-> key,
           position |-> IF key = run.key THEN run.position + 1 ELSE 1,
           call_key |-> key,
           accepted |-> should_process_key(h, key).ok,
           action |-> r.action]

ProcessInput ==
  /\ \E key \in RunKeys :
       /\ key = key_run.key => key_run.position < MaxRun
       /\ input_handler' = process_input(input_handler, key).handler
       /\ key_run' = next_run(key_run, input_handler, key)
  /\ UNCHANGED <<fire_engine, control_engine, calls, crashed, ignitions,
                 ui_manager, main_loop, should_exit, display, snake_game>>

NextKeys == ProcessInput

SpecKeys == Init /\ [][NextKeys]_vars

(* ======== the colour and glyph mapping ======== *)
HeatLevels == (-HeatMargin)..(100 + HeatMargin)
\* the schemes, and the enumerator that counts them
Schemes == CLASSIC_FIRE..NUM_COLOR_SCHEMES

DrawCell ==
  /\ \E heat_level \in HeatLevels, scheme \in Schemes :
       display' = Cell(heat_level, scheme)
  /\ UNCHANGED <<fire_engine, control_engine, calls, crashed, ignitions,
                 application, key_run, snake_game>>

NextColors == DrawCell

\* the mapping reads no engine state: one constructed engine is enough
InitColors == Init /\ fire_engine = FireEngine(0, 100)

SpecColors == InitColors /\ [][NextColors]_vars

(* ======== the controls called with arbitrary arguments ======== *)
\* arguments of set_wind: a NaN, and values beyond both ends of the range
WindArguments == {NaN, -1000, 1000}
\* arguments of add_fuel: both ends of int, and the step that leaves one
\* unit of fuel
FuelArguments == {INT_MIN, -49, INT_MAX}

ControlsSetWind ==
  /\ ~crashed
  /\ \E s \in WindArguments :
       /\ fire_engine' = set_wind(fire_engine, s)
       /\ Record(Call("set_wind", s, 0))
  /\ UNCHANGED <<control_engine, crashed, ignitions, application, standalone>>

ControlsAddFuel == AddFuelOf(FuelArguments)

ControlsUpdate == UpdateOf(FrameDraws, MaxUpdates)

NextControls ==
  \/ Reset
  \/ ControlsSetWind
  \/ ControlsAddFuel
  \/ ControlsUpdate
  \/ UpdateTrap

SpecControls == Init /\ [][NextControls]_vars

(* ======================= claims: the engine ======================= *)
InRange(grid) == \A y \in Rows, x \in Cols : grid[y][x] \in 0..100

C4_StatsFuelAfterAddFuel ==
  /\ (calls.op = "add_fuel" /\ calls.a = 1000) => get_stats(fire_engine).fuel_level = 100
  /\ (calls.op = "add_fuel" /\ calls.a = -1000) => get_stats(fire_engine).fuel_level = 0

\* C4 (amended): after add_fuel(1000) directly followed by one update() the
\* statistics report fuel level 100; after add_fuel(-1000) directly followed
\* by one update() they report 0.
C4_StatsFuelAfterAddFuelAndUpdate ==
  /\ (calls.op = "update" /\ calls.b = 1000) => get_stats(fire_engine).fuel_level = 100
  /\ (calls.op = "update" /\ calls.b = -1000) => get_stats(fire_engine).fuel_level = 0

\* add_fuel(1000) from fuel 0, then update()
C4_Witness ==
  /\ calls.op = "update" /\ calls.b = 1000
  /\ get_stats(fire_engine).fuel_level = 100
  /\ fire_engine.update_counter >= 2

\* C6: directly after reset() the current grid holds exactly the ignition band
\* (bottom row, width/4 <= x < 3*width/4, each heat in [80,99]), the shadow
\* grid is all zero, there are no particles, wind is 0, fuel is 50 and the
\* color scheme is the one active before the call.
ResetPost(e) ==
  /\ \A y \in Rows, x \in Cols :
       IF y = height - 1 /\ x >= width \div 4 /\ x < (3 * width) \div 4
       THEN e.heat_grid[y][x] \in 80..99
       ELSE e.heat_grid[y][x] = 0
  /\ \A y \in Rows, x \in Cols : e.new_heat_grid[y][x] = 0
  /\ e.particles = <<>>
  /\ e.wind_strength = 0
  /\ e.fuel_amount = 50

C6_ResetPostcondition ==
  [][calls'.op = "reset" =>
       /\ ResetPost(fire_engine')
       /\ fire_engine'.current_scheme = fire_engine.current_scheme]_vars

\* a reset() made after two update() calls and a change of the color scheme
C6_Witness ==
  /\ calls.op = "reset"
  /\ fire_engine.update_counter >= 2
  /\ fire_engine.current_scheme # CLASSIC_FIRE
  /\ get_stats(fire_engine).fuel_level = 100
  /\ get_stats(fire_engine).wind_speed = 5

\* C9: after reset(), after each of any number of consecutive update() calls
\* the statistics have active_pixels > 0 and max_temp <= 100.
C9_BurningAfterReset ==
  (calls.op = "update" /\ calls.a > 0) =>
     /\ get_stats(fire_engine).active_pixels > 0
     /\ get_stats(fire_engine).max_temp <= 100

\* the second consecutive update() after a reset()
C9_Witness ==
  /\ calls.op = "update" /\ calls.a >= 2
  /\ fire_engine.fuel_amount = 50 /\ fire_engine.wind_strength = 0
  /\ get_stats(fire_engine).max_temp > 0

\* C10: every individual write to a cell of either grid leaves the written
\* cell in [0,100].
C10_EveryWriteInRange ==
  fire_engine.write_lo >= 0 /\ fire_engine.write_hi <= 100

\* C7: in every state reached by update(), ignite_at() and reset() calls in any
\* order the particle collection holds at most max_particles (200) particles.
C7_ParticleCap == Len(fire_engine.particles) <= max_particles

\* an ignite_at that found the collection one explosion short of full or
\* fuller: the collection is full and holds a particle spawned at the bottom
\* row by generate_particles, so fewer than ten of the call's particles fit
C7_Witness ==
  /\ calls.op = "ignite_at"
  /\ Len(fire_engine.particles) = max_particles
  /\ \E i \in 1..Len(fire_engine.particles) :
       fire_engine.particles[i].y = 10 * (height - 1)

\* the particle is not removed by the update() that processes it
Survives(p) == p.life - 1 > 0 /\ p.heat - 2 > 0 /\ p.y + p.vy >= 0

\* C21: an update() processes every particle it finds exactly once: the
\* particles that stay are, in their order, those whose life after the
\* decrease by 1, heat after the decrease by 2 and position are still alive,
\* with exactly these decreases; any other particle in the collection is one
\* this call has spawned (none on a call that does not spawn), still at the
\* row of its cell; and every particle left by update() has life > 0,
\* heat > 0 and y >= 0.
C21_ParticlesProcessedOnce ==
  [][calls'.op = "update" =>
       LET kept == SelectSeq(fire_engine.particles, Survives)
           left == fire_engine'.particles
       IN /\ Len(left) >= Len(kept)
          /\ \A i \in 1..Len(kept) :
               /\ left[i].life = kept[i].life - 1
               /\ left[i].heat = kept[i].heat - 2
          /\ fire_engine'.update_counter % 2 = 1 => Len(left) = Len(kept)
          /\ \A i \in (Len(kept) + 1)..Len(left) :
               \E py \in (height \div 2)..(height - 1) :
                 left[i].y = FireParticle(py, left[i].heat).y
          /\ \A i \in 1..Len(left) :
               left[i].life > 0 /\ left[i].heat > 0 /\ left[i].y >= 0]_vars

\* the second update() has returned: the particles of an explosion that
\* were processed twice have left the grid at its top and are erased, those
\* of a later explosion are first in the collection, processed once, and
\* behind them is a particle spawned by this call
C21_Witness ==
  /\ calls.op = "update" /\ fire_engine.update_counter = 2
  /\ Len(fire_engine.particles) > explosion_particles
  /\ fire_engine.particles[1].life = 48 /\ fire_engine.particles[1].heat = 78
  /\ fire_engine.particles[Len(fire_engine.particles)].life \in {20, 49}
  /\ \A i \in 1..Len(fire_engine.particles) :
       fire_engine.particles[i].life # 47

\* the truncated shares 0.1 * h of the in-grid horizontal neighbours of the
\* cell (y, x) in the grid g
LateralShares(g, y, x) ==
  (IF x > 0 /\ g[y][x - 1] > 0 THEN g[y][x - 1] \div 10 ELSE 0)
  + (IF x < width - 1 /\ g[y][x + 1] > 0 THEN g[y][x + 1] \div 10 ELSE 0)

\* C22: at the end of update() the value of every cell includes the shares
\* 0.1 * h of its left and of its right neighbour in the grid: it is at least
\* the sum of the two shares computed from the heat before the call (the fuel
\* source only raises the heat the diffusion reads, and a cell that loses 1
\* to turbulence has kept more than 1 of its own heat).
C22_LateralSpread ==
  [][calls'.op = "update" =>
       \A y \in Rows, x \in Cols :
         fire_engine'.heat_grid[y][x] >=
           LateralShares(fire_engine.heat_grid, y, x)]_vars

\* what the cell (y, x) keeps of its heat in the grid g, in whole units: the
\* cooled heat less the lateral shares and less the rise share 0.3 * h, which
\* a cell of the top row gives up only when top_gives is set
KeptHeat(g, y, x, top_gives) ==
  IF g[y][x] <= 0 THEN 0
  ELSE clamp_heat(Trunc(85 * g[y][x]
                        - (IF y > 0 \/ top_gives THEN 30 * g[y][x] ELSE 0)
                        - (IF x > 0 THEN 10 * g[y][x] ELSE 0)
                        - (IF x < width - 1 THEN 10 * g[y][x] ELSE 0), 100))

\* what reaches the cell (y, x) from the cells processed after it: the rise
\* share of the cell below and the lateral share of the cell to its right
ReceivedHeat(g, y, x) ==
  (IF y < height - 1 /\ g[y + 1][x] > 0 THEN (3 * g[y + 1][x]) \div 10 ELSE 0)
  + (IF x < width - 1 /\ g[y][x + 1] > 0 THEN g[y][x + 1] \div 10 ELSE 0)

\* the value of the cell at the end of the update() that read the grid g and
\* drew t for the turbulence
AfterPass(g, y, x, t, top_gives) ==
  LET v == KeptHeat(g, y, x, top_gives) + ReceivedHeat(g, y, x)
  IN IF g[y][x] > 20 THEN clamp_heat(v + t) ELSE v

\* the grid an update() ends with is the result of the pass over the grid
\* left by the fuel source, for some draws of the call
PassResult(top_gives) ==
  \E r \in FuelDraws, t \in TurbDraws :
    LET g == add_fuel_source(fire_engine, r).heat_grid
    IN \A y \in Rows, x \in Cols :
         fire_engine'.heat_grid[y][x] = AfterPass(g, y, x, t, top_gives)

\* C23 (as stated): every cell with heat h > 0 gives up the rise share
\* 0.3 * h, a cell of the top row included (there the share is lost); the
\* truncated share is added to the cell directly above, and to no cell when
\* there is none.
C23_RiseLostAtTop ==
  [][calls'.op = "update" => PassResult(TRUE)]_vars

\* C23 (amended): a cell with heat h > 0 below the top row gives up the rise
\* share 0.3 * h, and the truncated share is added to the next-grid value of
\* the cell directly above; a cell of the top row gives up no rise share, and
\* nothing is added to any cell for it (no wrap to the bottom row).
C23_RiseShare ==
  [][calls'.op = "update" => PassResult(FALSE)]_vars

\* an update() has processed a hot cell of the top row that has a cold cell
\* to its right and a cold cell below: the cell keeps more than it would
\* have with the rise share taken (the grid the call read is the shadow
\* grid after the swap)
C23_Witness ==
  /\ calls.op = "update"
  /\ \E x \in Cols :
       /\ fire_engine.new_heat_grid[0][x] > 0
       /\ ReceivedHeat(fire_engine.new_heat_grid, 0, x) = 0
       /\ fire_engine.heat_grid[0][x] >
            KeptHeat(fire_engine.new_heat_grid, 0, x, TRUE)
  /\ \E y \in Rows \ {0}, x \in Cols :
       /\ fire_engine.new_heat_grid[y][x] > 0
       /\ fire_engine.heat_grid[y - 1][x] >=
            (3 * fire_engine.new_heat_grid[y][x]) \div 10
       /\ (3 * fire_engine.new_heat_grid[y][x]) \div 10 > 0

\* the particle was spawned by the update() that has just returned: it is at
\* the row of a cell of the lower half whose heat, read from the grid that
\* the swap has made the shadow grid, is above 60 and is the particle's
SpawnedFromHotCell(e, p) ==
  /\ p.life >= 20 /\ p.life <= 49
  /\ p.heat > 60
  /\ \E py \in (height \div 2)..(height - 1), x \in Cols :
       /\ p.y = FireParticle(py, p.heat).y
       /\ e.new_heat_grid[py][x] = p.heat

\* C26: an update() that makes the engine's count of update() calls odd
\* does not increase the number of particles; on a call that makes it even
\* every particle added is spawned from a cell of the lower half of the grid
\* with heat above 60, has that heat and a life in 20..49; and reset() leaves
\* the count as it is.
C26_SpawnEverySecondCall ==
  /\ [][calls'.op = "update" =>
          LET kept == SelectSeq(fire_engine.particles, Survives)
              left == fire_engine'.particles
          IN /\ fire_engine'.update_counter = fire_engine.update_counter + 1
             /\ fire_engine'.update_counter % 2 = 1 =>
                  Len(left) <= Len(fire_engine.particles)
             /\ \A i \in (Len(kept) + 1)..Len(left) :
                  /\ fire_engine'.update_counter % 2 = 0
                  /\ SpawnedFromHotCell(fire_engine', left[i])]_vars
  /\ [][calls'.op = "reset" =>
          fire_engine'.update_counter = fire_engine.update_counter]_vars

\* the second update() since the construction is the first one since a
\* reset(): it has spawned particles from the cells that reset() has heated
C26_Witness ==
  /\ calls.op = "update"
  /\ fire_engine.update_counter = 2 /\ fire_engine.frame_count = 1
  /\ fire_engine.particles # <<>>
  /\ \A i \in 1..Len(fire_engine.particles) :
       /\ fire_engine.particles[i].life = 49
       /\ SpawnedFromHotCell(fire_engine, fire_engine.particles[i])

(* ======================= claims: wind ======================= *)
\* the heat of the upper half of a grid (rows y with 2y < height) and its
\* first moment in x; the heat-weighted average x is their quotient
RECURSIVE UpperHeat(_, _)
UpperHeat(grid, k) ==
  IF 2 * (k \div width) >= height THEN 0
  ELSE grid[k \div width][k % width] + UpperHeat(grid, k + 1)

RECURSIVE UpperMoment(_, _)
UpperMoment(grid, k) ==
  IF 2 * (k \div width) >= height THEN 0
  ELSE (k % width) * grid[k \div width][k % width] + UpperMoment(grid, k + 1)

\* C3 (as claimed): two engines start from the same grid with wind 0 and get
\* the same draws; one is set to wind +5.  After 10 update() calls on both,
\* the heat-weighted average x of the upper half of the current grid of the
\* engine with wind +5 is strictly greater than that of the engine with
\* wind 0.
C3_WindShiftsCentroid ==
  (/\ calls.op = "update_both" /\ calls.a = 10 /\ calls.b = 5
   /\ fire_engine.wind_strength = 5 /\ control_engine.wind_strength = 0
   /\ UpperHeat(fire_engine.heat_grid, 0) > 0
   /\ UpperHeat(control_engine.heat_grid, 0) > 0)
  => UpperMoment(fire_engine.heat_grid, 0) * UpperHeat(control_engine.heat_grid, 0)
       > UpperMoment(control_engine.heat_grid, 0) * UpperHeat(fire_engine.heat_grid, 0)

\* C8: two engines in the same state get the same draws; set_wind(0) is
\* called on one of them.  After each of the update() calls then made on both,
\* the two current heat grids are equal.
C8_SameGridAfterSetWindZero ==
  (calls.op = "update_both" /\ calls.b = 0)
  => fire_engine.heat_grid = control_engine.heat_grid

\* the engines had wind 5 when set_wind(0) was called on the first: after ten
\* updates the second still has wind 5 and heat that its wind moves
C8_Witness ==
  /\ calls.op = "update_both" /\ calls.b = 0 /\ calls.a = MaxPairUpdates
  /\ fire_engine.wind_strength = 0
  /\ control_engine.wind_strength = 5
  /\ \E y \in Rows, x \in Cols :
       10 * y < 8 * height /\ wind_moves(control_engine, y, x)

(* ======================= claims: ignition ======================= *)
\* the grid cell that ignite_at(x, y) aims at
grid_x(x) == x - offset_x
grid_y(y) == y - offset_y
InGrid(x, y) == x \in Cols /\ y \in Rows

\* C2 (as claimed): ignite_at aimed at a cell of a fully cold grid leaves that
\* cell of the current heat grid at exactly explosion_intensity (80) and the
\* cells at squared distance 9 from it at heat 0.
C2_IgniteHeatsCentre ==
  [][(/\ calls'.op = "ignite_at"
      /\ InGrid(grid_x(calls'.a), grid_y(calls'.b))
      /\ fire_engine.heat_grid = ZeroGrid)
     => /\ get_heat_at(fire_engine', grid_x(calls'.a), grid_y(calls'.b))
             = explosion_intensity
        /\ \A y \in Rows, x \in Cols :
             (x - grid_x(calls'.a)) * (x - grid_x(calls'.a))
               + (y - grid_y(calls'.b)) * (y - grid_y(calls'.b))
               = explosion_radius * explosion_radius
             => get_heat_at(fire_engine', x, y) = 0]_vars

(* ======================= claims: the main loop ======================= *)
\* C5 (as claimed): a press of space that follows an earlier press of space,
\* with at least one frame in between in which no key was read, resumes the
\* simulation that the earlier press paused: paused is false after it.
C5_SpaceTogglesPause ==
  [][(/\ calls'.op = "frame" /\ calls'.a \in PauseKeys
      /\ calls.op = "frame" /\ calls.a = KEY_NONE
      /\ input_handler.last_key \in PauseKeys
      /\ main_loop.paused)
     => ~main_loop'.paused]_vars

\* the key read by the frame is accepted as the action
Accepted(action) ==
  /\ calls'.op = "frame"
  /\ process_input(input_handler, calls'.a).action = action

\* C24: a frame that handles an accepted cycle-colors action advances the
\* color scheme of the UI by one modulo 6 and gives the engine the same
\* scheme, and the action changes nothing else: the fuel amount and the wind
\* strength are the same after the frame, and in a paused frame, where no
\* update() follows the action, so are both heat grids and the particles.
C24_CycleColorsOnlyScheme ==
  [][Accepted("CYCLE_COLORS") =>
       /\ ui_manager'.current_scheme =
            (ui_manager.current_scheme + 1) % NUM_COLOR_SCHEMES
       /\ fire_engine'.current_scheme = ui_manager'.current_scheme
       /\ fire_engine'.fuel_amount = fire_engine.fuel_amount
       /\ fire_engine'.wind_strength = fire_engine.wind_strength
       /\ main_loop'.paused =>
            /\ fire_engine'.heat_grid = fire_engine.heat_grid
            /\ fire_engine'.new_heat_grid = fire_engine.new_heat_grid
            /\ fire_engine'.particles = fire_engine.particles]_vars

\* C25: a frame that leaves the loop paused and accepts no reset action
\* calls no update(): the current heat grid, the particles, the statistics
\* snapshot and the engine's count of update() calls are the same after the
\* frame, whatever key it read; render() changes none of them.
C25_PausedFrameKeepsSimulation ==
  [][(calls'.op = "frame" /\ main_loop'.paused /\ ~Accepted("RESET")) =>
       /\ fire_engine'.heat_grid = fire_engine.heat_grid
       /\ fire_engine'.particles = fire_engine.particles
       /\ fire_engine'.stats = fire_engine.stats
       /\ fire_engine'.update_counter = fire_engine.update_counter
       /\ render(fire_engine') = fire_engine']_vars

\* the simulation has run twice, so that it has particles, and was then
\* paused; the last frame has read w: the wind is set, and no third
\* update() was made
C25_Witness ==
  /\ calls.op = "frame" /\ calls.a \in WindLeftKeys
  /\ main_loop.paused /\ main_loop.frame_count = 4
  /\ fire_engine.wind_strength < 0
  /\ fire_engine.update_counter = 2
  /\ fire_engine.particles # <<>>
  /\ get_stats(fire_engine).wind_speed = 0

\* a quit action has been accepted, or the signal handler has run
StopRequested == ~main_loop.running \/ should_exit

\* C16: once a quit action is accepted or should_exit is set, no further
\* frame starts, cleanup_display() runs and main returns; and main is never
\* behind its loop and ended without cleanup_display() having run.
C16_GracefulShutdown ==
  /\ [](main_loop.pc = "return" => main_loop.cleaned_up)
  /\ [][StopRequested => main_loop'.frame_count = main_loop.frame_count]_vars
  /\ (StopRequested ~> (main_loop.pc = "return" /\ main_loop.cleaned_up))

\* main has returned after a quit key, cleanup_display() having run, while
\* no signal arrived
C16_Witness ==
  /\ main_loop.pc = "return" /\ main_loop.cleaned_up
  /\ ~main_loop.running /\ ~should_exit
  /\ input_handler.last_key \in QuitKeys

(* ======================= claims: the controls ======================= *)
\* C11: in every state, whatever the arguments of the set_wind and add_fuel
\* calls made so far, the fuel level is in [0,100] and the wind strength is
\* in [-5,5].  (set_wind(NaN) stores the NaN: std::clamp returns its
\* argument when both comparisons are false.)
C11_ControlsInRange ==
  /\ fire_engine.fuel_amount >= 0 /\ fire_engine.fuel_amount <= 100
  /\ float_less(-6, fire_engine.wind_strength)
  /\ float_less(fire_engine.wind_strength, 6)

\* C15: at every fuel level that add_fuel can leave, update() runs to its
\* end: the divisor fuel_amount / 2 of the fuel modulus is not zero where the
\* modulus is evaluated, and no update() has trapped.
C15_UpdateTotal == ~FuelDivisorZero(fire_engine) /\ ~crashed

\* C17: the statistics snapshot changes only inside update(): reset,
\* set_wind, add_fuel, ignite_at, set_color_scheme, render and get_stats
\* leave every field of it as it was.
C17_StatsChangeOnlyInUpdate ==
  [][calls'.op # "update" => get_stats(fire_engine') = get_stats(fire_engine)]_vars

\* reset() has returned after an update() of a fully fuelled fire: the
\* snapshot still has the fuel level that reset() has set back to 50
C17_Witness ==
  /\ calls.op = "reset" /\ fire_engine.update_counter > 0
  /\ fire_engine.fuel_amount = 50
  /\ get_stats(fire_engine).fuel_level = 100

(* ======================= claims: the input handler ======================= *)
\* the continuous actions: wind and fuel adjustment
ContinuousActions ==
  {"WIND_LEFT", "WIND_RIGHT", "INCREASE_FUEL", "DECREASE_FUEL"}

\* C12: in a run of process_input calls with one key code, the first call is
\* accepted; after it a wind or fuel key is accepted exactly at the positions
\* of the run (counted from 1) that are multiples of 3, and any other key is
\* not accepted again; every call that is not accepted returns NONE.
C12_RepeatSuppression ==
  /\ (key_run.call_key # KEY_NONE /\ key_run.position = 1) => key_run.accepted
  /\ (key_run.call_key # KEY_NONE /\ key_run.position > 1) =>
       IF key_action(key_run.key) \in ContinuousActions
       THEN key_run.accepted <=> key_run.position % 3 = 0
       ELSE ~key_run.accepted
  /\ ~key_run.accepted => key_run.action = "NONE"
  /\ (key_run.accepted /\ key_run.position = 1) =>
       key_run.action = key_action(key_run.key)

\* the sixth call of a run of a wind key has been accepted, after an
\* earlier run of the help key
C12_Witness ==
  /\ key_run.call_key \in WindLeftKeys /\ key_run.position = 6
  /\ key_run.accepted /\ key_run.action = "WIND_LEFT"
  /\ input_handler.help_visible

(* ======================= claims: colours and glyphs ======================= *)
\* the colour of the cell differs from the colour of the heat level below
ColorChanges ==
  display.color # get_fire_color(display.heat_level - 1, display.scheme)

\* C13 (as claimed): over the heat levels 1..99 the colour changes exactly at
\* 20, 40 and 70 for the classic scheme, at 30 and 60 for the blue, ice and
\* plasma schemes and at 40 for the matrix scheme, and the rainbow colour is
\* the one at index (heat div 15) mod 6.
C13_ColorThresholds ==
  display.heat_level \in 2..99 =>
    /\ display.scheme = CLASSIC_FIRE =>
         (ColorChanges <=> display.heat_level \in {20, 40, 70})
    /\ display.scheme \in {BLUE_FLAME, ICE_FIRE, PLASMA} =>
         (ColorChanges <=> display.heat_level \in {30, 60})
    /\ display.scheme = MATRIX => (ColorChanges <=> display.heat_level = 40)
    /\ display.scheme = RAINBOW =>
         display.color = FIRE_RED + ((display.heat_level \div 15) % 6)

\* C13 (amended): as above, with the ice scheme changing at 25 and 50.
C13_ColorThresholdsIce ==
  display.heat_level \in 2..99 =>
    /\ display.scheme = CLASSIC_FIRE =>
         (ColorChanges <=> display.heat_level \in {20, 40, 70})
    /\ display.scheme \in {BLUE_FLAME, PLASMA} =>
         (ColorChanges <=> display.heat_level \in {30, 60})
    /\ display.scheme = ICE_FIRE =>
         (ColorChanges <=> display.heat_level \in {25, 50})
    /\ display.scheme = MATRIX => (ColorChanges <=> display.heat_level = 40)
    /\ display.scheme = RAINBOW =>
         display.color = FIRE_RED + ((display.heat_level \div 15) % 6)

\* an ice cell of heat 25 has been drawn, in the colour that follows cyan
C13_Witness ==
  /\ display.scheme = ICE_FIRE /\ display.heat_level = 25
  /\ display.color = FIRE_WHITE

\* C14: the glyph is the space iff heat <= 0, and otherwise the glyph of the
\* band of the heat, the bands beginning exactly at 1, 15, 30, 50, 70 and 90;
\* the colour is the background colour iff heat <= 0, in every scheme.
C14_GlyphBands ==
  /\ display.fire_char = " " <=> display.heat_level <= 0
  /\ display.heat_level > 0 =>
       /\ display.fire_char = get_fire_char(1) <=> display.heat_level < 15
       /\ display.fire_char = get_fire_char(15) <=> display.heat_level \in 15..29
       /\ display.fire_char = get_fire_char(30) <=> display.heat_level \in 30..49
       /\ display.fire_char = get_fire_char(50) <=> display.heat_level \in 50..69
       /\ display.fire_char = get_fire_char(70) <=> display.heat_level \in 70..89
       /\ display.fire_char = get_fire_char(90) <=> display.heat_level >= 90
  /\ display.heat_level = 15 => display.fire_char # get_fire_char(14)
  /\ display.color = FIRE_BLACK <=> display.heat_level <= 0

\* a cell of heat 15 has been drawn in the rainbow scheme
C14_Witness ==
  /\ display.heat_level = 15 /\ display.scheme = RAINBOW
  /\ display.fire_char = ":" /\ display.color # FIRE_BLACK

(* ======================= claims: the snake game ======================= *)
\* a game is in progress
InProgress == snake_game.game_started /\ ~snake_game.game_over

StrictlyInside(p) ==
  p.x > 0 /\ p.x < WIDTH - 1 /\ p.y > 0 /\ p.y < HEIGHT - 1

\* the cell in front of the head, in the direction of the last key accepted
NewHead ==
  LET head == snake_game.snake[1]
  IN CASE snake_game.next_direction = KEY_W -> Point(head.x, head.y - 1)
       [] snake_game.next_direction = KEY_S -> Point(head.x, head.y + 1)
       [] snake_game.next_direction = KEY_A -> Point(head.x - 1, head.y)
       [] snake_game.next_direction = KEY_D -> Point(head.x + 1, head.y)

\* C18: while a game is in progress the food is on no segment of the snake
\* and strictly inside the border walls.
C18_FoodPlacement ==
  InProgress =>
    /\ \A i \in 1..Len(snake_game.snake) : snake_game.snake[i] # snake_game.food
    /\ StrictlyInside(snake_game.food)

\* the snake has eaten once and new food has been spawned
C18_Witness ==
  /\ InProgress /\ calls.op = "update_game"
  /\ snake_game.score = 10 /\ Len(snake_game.snake) = 4

\* C19: a press of Q ends the program in every state of the game: on the
\* start screen, while playing and on the game-over screen.
C19_QuitEverywhere ==
  [][(calls'.op = "handle_input" /\ tolower(calls'.a) = KEY_Q)
     => snake_game'.exited]_vars

\* C20: while a game is in progress every segment is strictly inside the
\* border and the segments are pairwise distinct; a tick whose new head is on
\* the border or on a segment sets game_over and leaves the snake, the food
\* and the score as they were; and a tick made while game_over holds changes
\* nothing.
C20_SnakeSafety ==
  /\ [](InProgress =>
         /\ \A i \in 1..Len(snake_game.snake) :
              StrictlyInside(snake_game.snake[i])
         /\ \A i, j \in 1..Len(snake_game.snake) :
              i # j => snake_game.snake[i] # snake_game.snake[j])
  /\ [][(/\ calls'.op = "update_game" /\ InProgress
         /\ (~StrictlyInside(NewHead)
               \/ \E i \in 1..Len(snake_game.snake) :
                     snake_game.snake[i] = NewHead))
        => /\ snake_game'.game_over
           /\ snake_game'.snake = snake_game.snake
           /\ snake_game'.food = snake_game.food
           /\ snake_game'.score = snake_game.score]_vars
  /\ [][(calls'.op = "update_game" /\ snake_game.game_over)
        => snake_game' = snake_game]_vars

\* a grown snake has run into its own body: the game is over, and the cell
\* in front of the head is a segment
C20_Witness ==
  /\ snake_game.game_over /\ calls.op = "update_game"
  /\ snake_game.score = 10
  /\ \E i \in 1..Len(snake_game.snake) : snake_game.snake[i] = NewHead

\* C28: with the fuel amount at 0 and only update() called, the total heat
\* of the current grid strictly decreases on every update() while it is
\* positive; a grid without heat stays without heat; and the grid becomes
\* all zero, with active_pixels = 0 in the statistics, and stays so.
C28_HeatDiesOut ==
  /\ [][(calls'.op = "update" /\ fire_engine.fuel_amount = 0) =>
          /\ SumHeat(fire_engine.heat_grid, 0) > 0 =>
               SumHeat(fire_engine'.heat_grid, 0) < SumHeat(fire_engine.heat_grid, 0)
          /\ fire_engine.heat_grid = ZeroGrid =>
               /\ fire_engine'.heat_grid = ZeroGrid
               /\ get_stats(fire_engine').active_pixels = 0]_vars
  /\ (fire_engine.fuel_amount = 0) ~>
        [](/\ fire_engine.heat_grid = ZeroGrid
           /\ get_stats(fire_engine).active_pixels = 0)

\* update() has been called on a grid that had died out before, on an
\* engine without fuel
C28_Witness ==
  /\ calls.op = "update" /\ fire_engine.fuel_amount = 0
  /\ fire_engine.heat_grid = ZeroGrid /\ fire_engine.new_heat_grid = ZeroGrid
  /\ get_stats(fire_engine).active_pixels = 0
  /\ get_stats(fire_engine).frames_rendered >= 2

\* C29: once the UI is rendered with statistics whose fuel level stays at a
\* constant value, the smoothed fuel of the UI eventually equals that value.
C29_SmoothedFuelConverges ==
  [](calls.op = "ui_render" =>
       <>(ui_manager.smooth_fuel = get_stats(fire_engine).fuel_level))

\* C30: every particle in the collection, spawned or made by an explosion,
\* has a life in 1..49; every update() takes 1 off the life of each particle
\* it keeps, so that no particle is kept by the 49th update() after its
\* creation; and when nothing is spawned any more the collection becomes
\* empty.
C30_ParticlesExpire ==
  /\ [](\A i \in 1..Len(fire_engine.particles) :
          fire_engine.particles[i].life >= 1 /\ fire_engine.particles[i].life <= 49)
  /\ [][calls'.op = "update" =>
          \A i \in 1..Len(SelectSeq(fire_engine.particles, Survives)) :
            fire_engine'.particles[i].life
              = SelectSeq(fire_engine.particles, Survives)[i].life - 1]_vars
  /\ (fire_engine.particles # <<>>) ~> (fire_engine.particles = <<>>)

\* update() has returned with a particle whose life is down to 1 while its
\* heat and its position would keep it: the next update() erases it because
\* its life has run out
C30_Witness ==
  /\ calls.op = "update"
  /\ \E i \in 1..Len(fire_engine.particles) :
       /\ fire_engine.particles[i].life = 1
       /\ fire_engine.particles[i].heat > 2
       /\ fire_engine.particles[i].y + fire_engine.particles[i].vy >= 0

\* the two directions are opposite
Opposite(a, b) ==
  \/ a = KEY_W /\ b = KEY_S
  \/ a = KEY_S /\ b = KEY_W
  \/ a = KEY_A /\ b = KEY_D
  \/ a = KEY_D /\ b = KEY_A

\* C27: next_direction is never the opposite of direction, whatever keys
\* were pressed, and the direction a tick applies is never the opposite of
\* the direction the snake had when the tick began.
C27_NoReversal ==
  /\ [](~Opposite(snake_game.direction, snake_game.next_direction))
  /\ [][calls'.op = "update_game" =>
          ~Opposite(snake_game.direction, snake_game'.direction)]_vars

\* in a game whose snake has moved right, w was pressed and then a: the
\* turn upwards is kept for the next tick and the reversal is refused
C27_Witness ==
  /\ calls.op = "handle_input" /\ calls.a = KEY_A
  /\ InProgress /\ snake_game.ticks >= 1
  /\ snake_game.direction = KEY_D
  /\ snake_game.next_direction = KEY_W

TypeOK == fire_engine.fuel_amount \in 0..100
====
